---- MODULE Spec2Model ----
(***************************************************************************)
(* A model of src/node.js: the paginated fetch with endpoint fallback      *)
(* (fetchAll, fetchWithFallbacks) and the deduplicating aggregation        *)
(* (aggregate).                                                            *)
(***************************************************************************)
EXTENDS Integers, Sequences, FiniteSets, TLC

(***************************************************************************)
(* Bounds of the model.                                                    *)
(***************************************************************************)
\* fetchAll's page size. The source sets 1000 (src/node.js:124); the model
\* scales it down, and fetchAll reads it only through the comparison with
\* rows.length and the increment of skip
first == 2

\* the largest number of records an endpoint holds for one query
MaxRecords == 3

(***************************************************************************)
(* Values of the program.                                                  *)
(***************************************************************************)
\* undefined, where a string may stand
Undefined == "undefined"

\* undefined, where an object may stand
NoObject == [undefined |-> TRUE]

\* src/node.js:9 and :10, the two built-in endpoints
URL_MESSARI == "https://api.thegraph.com/subgraphs/id/A1BC1hzDsK4NTeXBpKQnDBphngpYZAwDUF7dEBfa3jHK"
URL_ALT == "https://api.thegraph.com/subgraphs/id/78EUqzJmEVJsAKvWghn7qotf9LVGqcTQxJhT5z84ZmgJ"

\* the values process.env.SUBGRAPH_URL takes: unset, blank, a URL
EnvValues == {Undefined, " ", " https://env.example/subgraph "}

\* String.prototype.trim on the values above; undefined?.trim() is undefined
Trim(s) ==
  IF s = Undefined THEN Undefined
  ELSE IF s = " " THEN ""
  ELSE IF s = " https://env.example/subgraph " THEN "https://env.example/subgraph"
  ELSE s

\* Boolean(x) on the values a URL slot takes
Boolean(x) == x # Undefined /\ x # ""

\* the three query documents
SWAPS_QUERY == "SwapsByOrigin"
SWAPS_QUERY_SENDER == "SwapsBySender"
SWAPS_QUERY_RECIPIENT == "SwapsByRecipient"

\* the order in which fetchWithFallbacks runs them
Queries == <<SWAPS_QUERY, SWAPS_QUERY_SENDER, SWAPS_QUERY_RECIPIENT>>

VARIABLES
  SUBGRAPH_URL,    \* process.env.SUBGRAPH_URL
  pc,              \* where fetchWithFallbacks stands
  urlIdx,          \* position of the for-loop in DEFAULT_URLS (1-based)
  lastErr,         \* fetchWithFallbacks' lastErr
  qIdx,            \* which of the three fetchAll calls runs (1..3)
  skip,            \* fetchAll's skip
  out,             \* fetchAll's out
  swapsOrigin,     \* result of the first fetchAll of this endpoint
  swapsSender,     \* result of the second fetchAll of this endpoint
  result,          \* the object fetchWithFallbacks returns, or NoObject
  thrown,          \* the Error fetchWithFallbacks throws, or NoObject
  inflight,        \* the requests awaiting an answer
  avail,           \* the number of matching records the endpoint holds for the
                   \* query that ran last on it (0 before the first)
  requests,        \* every request issued so far, in order
  errors,          \* every error a request raised so far, in order
  lastAnswer,      \* the latest answer: "none", "rows", "malformed", "error"
  swapsRecipient,  \* result of the third fetchAll; aggregate's fourth argument
  addresses,       \* main's addresses; aggregate's first argument
  apc,             \* where aggregate stands
  idxById,         \* aggregate's idxById, in insertion order
  all,             \* aggregate's all
  per,             \* aggregate's per
  cursor,          \* position of the pass over all (1-based)
  ret,             \* the object aggregate returns, or NoObject
  argAddresses,    \* the parts of --addresses= between its commas
  walletFile,      \* whether WALLET_FILE can be read, and its lines
  mpc              \* where main stands

fetchVars == <<SUBGRAPH_URL, pc, urlIdx, lastErr, qIdx, skip, out, swapsOrigin,
               swapsSender, swapsRecipient, result, thrown, inflight, avail, requests,
               errors, lastAnswer>>

aggVars == <<addresses, apc, idxById, all, per, cursor, ret>>

mainVars == <<argAddresses, walletFile, mpc>>

vars == <<fetchVars, aggVars, mainVars>>

\* src/node.js:7-11
DEFAULT_URLS == SelectSeq(<<Trim(SUBGRAPH_URL), URL_MESSARI, URL_ALT>>, Boolean)

(***************************************************************************)
(* The indexing service.                                                   *)
(***************************************************************************)
\* the i-th record (in timestamp order) an endpoint holds for a query
Record(url, query, i) == <<url, query, i>>

\* the records an endpoint holds for a query, in the order it serves them
Source(url, query, n) == [i \in 1..n |-> Record(url, query, i)]

\* the page the service returns for (first, skip) over n records
Page(url, query, n, f, s) ==
  LET lo == s + 1
      hi == IF s + f < n THEN s + f ELSE n
  IN  [i \in 1..(IF hi >= lo THEN hi - lo + 1 ELSE 0) |-> Record(url, query, lo + i - 1)]

\* the record counts the model draws from
Sizes == 0..MaxRecords

\* the error a failed request raises; its message names the request
RequestError(req) == [message |-> <<"request failed", req.url, req.query, req.skip>>]

(***************************************************************************)
(* fetchWithFallbacks and fetchAll                                         *)
(***************************************************************************)
\* main is not followed
MainIdle ==
  /\ argAddresses = <<>>
  /\ walletFile = [readable |-> FALSE, lines |-> <<>>]
  /\ mpc = "idle"

\* aggregate has not been called
AggIdle ==
  /\ addresses = <<>>
  /\ apc = "idle"
  /\ idxById = <<>>
  /\ all = <<>>
  /\ per = <<>>
  /\ cursor = 0
  /\ ret = NoObject

Init ==
  /\ SUBGRAPH_URL \in EnvValues
  /\ pc = "loop"
  /\ urlIdx = 1
  /\ lastErr = NoObject
  /\ qIdx = 0
  /\ skip = 0
  /\ out = <<>>
  /\ swapsOrigin = <<>>
  /\ swapsSender = <<>>
  /\ result = NoObject
  /\ thrown = NoObject
  /\ inflight = {}
  /\ avail = 0
  /\ requests = <<>>
  /\ errors = <<>>
  /\ lastAnswer = "none"
  /\ swapsRecipient = <<>>
  /\ AggIdle
  /\ MainIdle

\* `${lastErr?.message || lastErr}`
ErrText(e) ==
  IF e = NoObject THEN Undefined
  ELSE IF e.message # "" THEN e.message ELSE "Error"

\* mutants of ShortPage: a full page ends the loop too; only an empty page
\* ends the loop; no page ends the loop
ShortPageLeq(rows) == Len(rows) <= first
ShortPageEmpty(rows) == Len(rows) = 0
ShortPageNever(rows) == FALSE

\* if (rows.length < first) break
ShortPage(rows) == Len(rows) < first

\* skip += first
NextSkip(s) == s + first

\* mutants of NextEndpoint: the loop skips an entry; the loop stays on the
\* entry that failed
SkipEndpoint(i) == i + 2
SameEndpoint(i) == i

\* the for-of loop's step to the next entry of DEFAULT_URLS
NextEndpoint(i) == i + 1

\* mutant of CatchErr: the first error is kept
CatchErrKeepFirst(prev, e) == IF prev = NoObject THEN e ELSE prev

\* lastErr = e
CatchErr(prev, e) == e

\* mutant of WinnerUrl: the result names the head of the list
WinnerUrlHead(i) == DEFAULT_URLS[1]

\* endpoint: url
WinnerUrl(i) == DEFAULT_URLS[i]

\* for (const url of DEFAULT_URLS): the next endpoint, and the first fetchAll
\* on it; n is the number of records this endpoint holds for the query
TryUrl(n) ==
  /\ pc = "loop"
  /\ urlIdx <= Len(DEFAULT_URLS)
  /\ qIdx' = 1
  /\ skip' = 0
  /\ out' = <<>>
  /\ avail' = n
  /\ pc' = "request"
  /\ UNCHANGED <<SUBGRAPH_URL, urlIdx, lastErr, swapsOrigin, swapsSender, result,
                 thrown, inflight, requests, errors, lastAnswer, swapsRecipient, aggVars, mainVars>>

\* the loop ran out of endpoints: throw new Error(...)
ThrowAllFailed ==
  /\ pc = "loop"
  /\ urlIdx > Len(DEFAULT_URLS)
  /\ thrown' = [message |-> <<"All subgraph endpoints failed. Last error: ", ErrText(lastErr)>>]
  /\ pc' = "thrown"
  /\ UNCHANGED <<SUBGRAPH_URL, urlIdx, lastErr, qIdx, skip, out, swapsOrigin,
                 swapsSender, result, inflight, avail, requests, errors, lastAnswer,
                 swapsRecipient, aggVars, mainVars>>

\* mutant of SendRequest: the request is issued and not awaited
SendRequestNoAwait ==
  /\ pc = "request"
  /\ LET req == [url |-> DEFAULT_URLS[urlIdx], query |-> Queries[qIdx],
                 first |-> first, skip |-> skip]
     IN  /\ inflight' = inflight \cup {req}
         /\ requests' = Append(requests, req)
  /\ pc' = IF inflight = {} THEN "request" ELSE "await"
  /\ UNCHANGED <<SUBGRAPH_URL, urlIdx, lastErr, qIdx, skip, out, swapsOrigin,
                 swapsSender, result, thrown, avail, errors, lastAnswer, swapsRecipient, aggVars, mainVars>>

\* client.request(query, {...varsBase, first, skip})
SendRequest ==
  /\ pc = "request"
  /\ LET req == [url |-> DEFAULT_URLS[urlIdx], query |-> Queries[qIdx],
                 first |-> first, skip |-> skip]
     IN  /\ inflight' = inflight \cup {req}
         /\ requests' = Append(requests, req)
  /\ pc' = "await"
  /\ UNCHANGED <<SUBGRAPH_URL, urlIdx, lastErr, qIdx, skip, out, swapsOrigin,
                 swapsSender, result, thrown, avail, errors, lastAnswer, swapsRecipient, aggVars, mainVars>>

\* the rest of fetchAll's loop body once the rows are known, and, when the
\* page is short, the return into fetchWithFallbacks
TakeRows(rows) ==
  LET out1 == out \o rows
  IN  IF ShortPage(rows)
      THEN \* break; return out
           IF qIdx = 1
           THEN /\ swapsOrigin' = out1
                /\ qIdx' = 2 /\ skip' = 0 /\ out' = <<>> /\ pc' = "begin"
                /\ UNCHANGED <<swapsSender, swapsRecipient, result>>
           ELSE IF qIdx = 2
           THEN /\ swapsSender' = out1
                /\ qIdx' = 3 /\ skip' = 0 /\ out' = <<>> /\ pc' = "begin"
                /\ UNCHANGED <<swapsOrigin, swapsRecipient, result>>
           ELSE /\ swapsRecipient' = out1
                /\ result' = [swapsOrigin |-> swapsOrigin, swapsSender |-> swapsSender,
                              swapsRecipient |-> out1, endpoint |-> WinnerUrl(urlIdx)]
                /\ pc' = "returned"
                /\ out' = out1
                /\ UNCHANGED <<qIdx, skip, swapsOrigin, swapsSender>>
      ELSE /\ out' = out1
           /\ skip' = NextSkip(skip)
           /\ pc' = "request"
           /\ UNCHANGED <<qIdx, swapsOrigin, swapsSender, swapsRecipient, result>>

\* the second and third fetchAll start; n is the number of records the
\* endpoint holds for that query
BeginFetchAll(n) ==
  /\ pc = "begin"
  /\ avail' = n
  /\ pc' = "request"
  /\ UNCHANGED <<SUBGRAPH_URL, urlIdx, lastErr, qIdx, skip, out, swapsOrigin,
                 swapsSender, result, thrown, inflight, requests, errors, lastAnswer,
                 swapsRecipient, aggVars, mainVars>>

\* the service answers with the page asked for
RespondRows ==
  /\ pc = "await"
  /\ \E req \in inflight :
       /\ inflight' = inflight \ {req}
       /\ lastAnswer' = "rows"
       /\ TakeRows(Page(req.url, req.query, avail, req.first, req.skip))
  /\ UNCHANGED <<SUBGRAPH_URL, urlIdx, lastErr, thrown, avail, requests, errors, aggVars, mainVars>>

\* the service answers without a swaps list: rows = res?.swaps || []
RespondMalformed ==
  /\ pc = "await"
  /\ \E req \in inflight :
       /\ inflight' = inflight \ {req}
       /\ lastAnswer' = "malformed"
       /\ TakeRows(<<>>)
  /\ UNCHANGED <<SUBGRAPH_URL, urlIdx, lastErr, thrown, avail, requests, errors, aggVars, mainVars>>

\* mutant of RespondError: fetchAll swallows the rejection and returns the
\* pages it has
RespondErrorSwallowed ==
  /\ pc = "await"
  /\ \E req \in inflight :
       /\ inflight' = inflight \ {req}
       /\ lastAnswer' = "error"
       /\ errors' = Append(errors, RequestError(req))
       /\ lastErr' = RequestError(req)
       /\ TakeRows(<<>>)
  /\ UNCHANGED <<SUBGRAPH_URL, urlIdx, thrown, avail, requests, aggVars, mainVars>>

\* the request rejects (network error, timeout, GraphQL error): fetchAll
\* throws, the catch of fetchWithFallbacks keeps the error and the loop
\* moves on
RespondError ==
  /\ pc = "await"
  /\ \E req \in inflight :
       /\ inflight' = inflight \ {req}
       /\ lastAnswer' = "error"
       /\ errors' = Append(errors, RequestError(req))
       /\ lastErr' = CatchErr(lastErr, RequestError(req))
  /\ urlIdx' = NextEndpoint(urlIdx)
  /\ qIdx' = 0 /\ skip' = 0 /\ out' = <<>>
  /\ swapsOrigin' = <<>> /\ swapsSender' = <<>>
  /\ avail' = 0
  /\ pc' = "loop"
  /\ UNCHANGED <<SUBGRAPH_URL, swapsRecipient, result, thrown, requests, aggVars, mainVars>>

Next ==
  \/ \E n \in Sizes : TryUrl(n)
  \/ ThrowAllFailed
  \/ SendRequest
  \/ \E n \in Sizes : BeginFetchAll(n)
  \/ RespondRows
  \/ RespondMalformed
  \/ RespondError

Spec == Init /\ [][Next]_vars

(***************************************************************************)
(* The fetch against sources that may never run out of records.            *)
(***************************************************************************)
\* the number of pages of one call of fetchAll the model follows
MaxPages == 3

\* a source with records for every page the model follows: each of these
\* pages is full
Plenty == MaxPages * first

SizesOrPlenty == Sizes \cup {Plenty}

\* client.request, for the pages the model follows
SendRequestFollowed ==
  /\ skip < MaxPages * first
  /\ SendRequest

NextFollowed ==
  \/ \E n \in SizesOrPlenty : TryUrl(n)
  \/ ThrowAllFailed
  \/ SendRequestFollowed
  \/ \E n \in SizesOrPlenty : BeginFetchAll(n)
  \/ RespondRows
  \/ RespondMalformed
  \/ RespondError

\* the start with no endpoint of its own in the environment
InitFollowed == Init /\ SUBGRAPH_URL = Undefined

\* the function runs whenever it can (nothing else holds the thread), and
\* every request is answered: the client rejects after timeout: 30000
SpecFollowed == InitFollowed /\ [][NextFollowed]_vars /\ WF_vars(NextFollowed)

(***************************************************************************)
(* Definitions the properties of the fetch use.                            *)
(***************************************************************************)
\* the position of a URL in DEFAULT_URLS
UrlIndex(u) == CHOOSE i \in 1..Len(DEFAULT_URLS) : DEFAULT_URLS[i] = u

\* the requests issued to an endpoint for a query, in the order issued
CallRequests(u, q) == SelectSeq(requests, LAMBDA r : r.url = u /\ r.query = q)

\* the pages the service holds for a sequence of requests, concatenated
RECURSIVE PagesOf(_, _)
PagesOf(reqs, n) ==
  IF reqs = <<>> THEN <<>>
  ELSE Page(reqs[1].url, reqs[1].query, n, reqs[1].first, reqs[1].skip)
         \o PagesOf(Tail(reqs), n)

\* a call of fetchAll has just returned
CallReturned == pc \in {"begin", "returned"}

\* the query of the call that returned last on this endpoint (1..3)
ReturnedQuery == IF pc = "begin" THEN qIdx - 1 ELSE 3

\* the list that call returned
ReturnedList ==
  IF pc = "returned" THEN swapsRecipient
  ELSE IF qIdx = 2 THEN swapsOrigin ELSE swapsSender

\* the query of the call of fetchAll that is running
RunningCall == pc \in {"request", "await"}

\* ceil(n / p)
CeilDiv(n, p) == (n + p - 1) \div p

\* the request whose answer is the latest
LastAnswered ==
  IF inflight = {} THEN requests[Len(requests)] ELSE requests[Len(requests) - 1]

\* the request an error names
ErrUrl(e) == e.message[2]
ErrQuery(e) == e.message[3]
ErrSkip(e) == e.message[4]

(***************************************************************************)
(* C1. A call of fetchAll whose endpoint holds avail records and serves    *)
(* them faithfully (a call ends with its first malformed answer, so the    *)
(* latest answer being rows means every answer of the call was) returns    *)
(* exactly those records in the source's order, each once; request k       *)
(* (k = 0, 1, ...) has skip = k * first and first = first, and the list    *)
(* is the concatenation of the pages in request order.                     *)
(***************************************************************************)
C1_FetchAllComplete ==
  (CallReturned /\ lastAnswer = "rows") =>
    LET u == DEFAULT_URLS[urlIdx]
        q == Queries[ReturnedQuery]
        reqs == CallRequests(u, q)
    IN  /\ ReturnedList = Source(u, q, avail)
        /\ Len(ReturnedList) = avail
        /\ \A i, j \in 1..Len(ReturnedList) :
             i # j => ReturnedList[i] # ReturnedList[j]
        /\ \A k \in 1..Len(reqs) :
             reqs[k].skip = (k - 1) * first /\ reqs[k].first = first
        /\ ReturnedList = PagesOf(reqs, avail)

\* a faithful call over more than one full page has returned
C1_Witness ==
  /\ pc = "returned"
  /\ lastAnswer = "rows"
  /\ avail = first + 1
  /\ Len(result.swapsRecipient) = first + 1
  /\ Len(CallRequests(result.endpoint, SWAPS_QUERY_RECIPIENT)) = 2

(***************************************************************************)
(* C2. fetchAll issues exactly enough requests to see a final short page:  *)
(* over a faithful source of avail records, none yields the empty list     *)
(* after exactly one request, a positive multiple k * first yields k + 1   *)
(* requests, the last returning no rows, and in every case the number of   *)
(* requests is ceil(avail / first) or one more; at any time, every         *)
(* request of a call but the latest was answered with a full page.         *)
(***************************************************************************)
C2_RequestCount ==
  /\ (CallReturned /\ lastAnswer = "rows") =>
       LET u == DEFAULT_URLS[urlIdx]
           q == Queries[ReturnedQuery]
           reqs == CallRequests(u, q)
           last == reqs[Len(reqs)]
       IN  /\ Len(reqs) \in {CeilDiv(avail, first), CeilDiv(avail, first) + 1}
           /\ avail = 0 => (Len(reqs) = 1 /\ ReturnedList = <<>>)
           /\ (avail > 0 /\ avail % first = 0) =>
                /\ Len(reqs) = avail \div first + 1
                /\ Page(u, q, avail, last.first, last.skip) = <<>>
           /\ avail % first # 0 => Len(reqs) = CeilDiv(avail, first)
           /\ Len(Page(u, q, avail, last.first, last.skip)) < first
  /\ (RunningCall \/ CallReturned) =>
       LET u == DEFAULT_URLS[urlIdx]
           q == Queries[IF RunningCall THEN qIdx ELSE ReturnedQuery]
           reqs == CallRequests(u, q)
       IN  \A k \in 1..(Len(reqs) - 1) :
             Len(Page(u, q, avail, reqs[k].first, reqs[k].skip)) = first

\* a call over exactly one full page has returned after two requests
C2_Witness ==
  /\ pc = "begin" /\ qIdx = 2
  /\ lastAnswer = "rows"
  /\ avail = first
  /\ Len(swapsOrigin) = first
  /\ Len(CallRequests(DEFAULT_URLS[urlIdx], SWAPS_QUERY)) = 2

(***************************************************************************)
(* C3. fetchWithFallbacks tries the endpoints in list order and returns    *)
(* the lists of the first endpoint that completes all three queries, with  *)
(* that endpoint's URL: every endpoint before the winner raised an error,  *)
(* the winner raised none and was asked all three queries, and no request  *)
(* went to an endpoint after the winner.                                   *)
(***************************************************************************)
C3_FirstSuccessWins ==
  /\ \A i \in 1..(Len(requests) - 1) :
       UrlIndex(requests[i].url) <= UrlIndex(requests[i + 1].url)
  /\ pc = "returned" =>
       LET w == UrlIndex(result.endpoint)
       IN  /\ result.endpoint = DEFAULT_URLS[urlIdx]
           /\ \A i \in 1..(w - 1) :
                \E k \in 1..Len(errors) : ErrUrl(errors[k]) = DEFAULT_URLS[i]
           /\ \A k \in 1..Len(errors) : ErrUrl(errors[k]) # result.endpoint
           /\ \A q \in 1..3 : CallRequests(result.endpoint, Queries[q]) # <<>>
           /\ \A k \in 1..Len(requests) : UrlIndex(requests[k].url) <= w
           /\ inflight = {}

\* the first two endpoints failed and the third won
C3_Witness ==
  /\ pc = "returned"
  /\ Len(DEFAULT_URLS) = 3
  /\ result.endpoint = DEFAULT_URLS[3]
  /\ Len(errors) = 2

(***************************************************************************)
(* C4. An endpoint's result is all or nothing: the three lists returned    *)
(* hold only records fetched from the endpoint the result names, and no    *)
(* record of an endpoint that raised an error.                             *)
(***************************************************************************)
C4_AllOrNothing ==
  pc = "returned" =>
    \A list \in {result.swapsOrigin, result.swapsSender, result.swapsRecipient} :
      \A i \in 1..Len(list) :
        /\ list[i][1] = result.endpoint
        /\ \A k \in 1..Len(errors) : list[i][1] # ErrUrl(errors[k])

\* an endpoint failed after it had delivered records, and a later one won
\* with records of its own
C4_Witness ==
  /\ pc = "returned"
  /\ Len(errors) >= 1
  /\ ErrQuery(errors[1]) # SWAPS_QUERY
  /\ result.swapsOrigin # <<>>
  /\ result.swapsRecipient # <<>>

(***************************************************************************)
(* C5. When every endpoint fails a query, fetchWithFallbacks returns       *)
(* nothing and throws an error whose text carries the error of the last    *)
(* endpoint tried, not of an earlier one.                                  *)
(***************************************************************************)
C5_LastErrorSurfaces ==
  pc = "thrown" =>
    LET lastUrl == DEFAULT_URLS[Len(DEFAULT_URLS)]
    IN  /\ result = NoObject
        /\ Len(errors) = Len(DEFAULT_URLS)
        /\ \A i \in 1..Len(errors) : ErrUrl(errors[i]) = DEFAULT_URLS[i]
        /\ thrown.message[2] = errors[Len(errors)].message
        /\ thrown.message[2][2] = lastUrl
        /\ \A i \in 1..(Len(errors) - 1) : thrown.message[2] # errors[i].message

\* all three endpoints failed
C5_Witness ==
  /\ pc = "thrown"
  /\ Len(DEFAULT_URLS) = 3
  /\ Len(errors) = 3

(***************************************************************************)
(* C6. A failed page request aborts fetchAll at once: no later request     *)
(* goes out for that query on that endpoint, the pages accumulated are     *)
(* not handed to the caller, and fetchWithFallbacks holds the error.       *)
(***************************************************************************)
C6_ErrorAborts ==
  /\ \A k \in 1..Len(errors) :
       LET reqs == CallRequests(ErrUrl(errors[k]), ErrQuery(errors[k]))
       IN  /\ reqs # <<>>
           /\ reqs[Len(reqs)].skip = ErrSkip(errors[k])
  /\ (lastAnswer = "error" /\ pc = "loop") =>
       /\ out = <<>> /\ swapsOrigin = <<>> /\ swapsSender = <<>>
       /\ result = NoObject
       /\ inflight = {}
       /\ lastErr = errors[Len(errors)]
       /\ ErrUrl(lastErr) = LastAnswered.url
       /\ ErrSkip(lastErr) = LastAnswered.skip
  /\ pc = "returned" =>
       \A k \in 1..Len(errors) :
         \A list \in {result.swapsOrigin, result.swapsSender, result.swapsRecipient} :
           \A i \in 1..Len(list) : list[i][1] # ErrUrl(errors[k])

\* the second page request of a query failed, after a full page had been
\* accumulated
C6_Witness ==
  /\ lastAnswer = "error"
  /\ pc = "loop"
  /\ ErrSkip(lastErr) = first
  /\ ErrQuery(lastErr) = SWAPS_QUERY_SENDER

(***************************************************************************)
(* C7. Failures are never retried: no page request (same endpoint, same    *)
(* query, same offset) is issued twice, the requests to one endpoint form  *)
(* one uninterrupted attempt, and no request goes to an endpoint after a   *)
(* request to it failed.                                                   *)
(***************************************************************************)
C7_NoRetry ==
  /\ \A i \in 1..Len(requests) :
       \A j \in (i + 1)..Len(requests) :
         ~(/\ requests[i].url = requests[j].url
           /\ requests[i].query = requests[j].query
           /\ requests[i].skip = requests[j].skip)
  /\ \A i \in 1..(Len(requests) - 1) :
       requests[i + 1].url # requests[i].url =>
         \A k \in (i + 2)..Len(requests) : requests[k].url # requests[i].url
  /\ \A e \in 1..Len(errors) :
       \E i \in 1..Len(requests) :
         /\ requests[i].url = ErrUrl(errors[e])
         /\ requests[i].query = ErrQuery(errors[e])
         /\ requests[i].skip = ErrSkip(errors[e])
         /\ \A j \in (i + 1)..Len(requests) : requests[j].url # ErrUrl(errors[e])
  /\ Len(errors) <= Len(DEFAULT_URLS)
  /\ \A e1, e2 \in 1..Len(errors) : e1 # e2 => ErrUrl(errors[e1]) # ErrUrl(errors[e2])

\* an endpoint failed and requests went on to the next one
C7_Witness ==
  /\ Len(errors) = 2
  /\ pc = "await"
  /\ skip = first
  /\ urlIdx = 3

(***************************************************************************)
(* C8. A malformed answer (one without a swaps list) counts as a failure   *)
(* of the request: the endpoint that gave it is abandoned, so it is        *)
(* neither the endpoint a fetch goes on with nor the one whose lists are   *)
(* returned.                                                               *)
(***************************************************************************)
C8_MalformedIsFailure ==
  lastAnswer = "malformed" =>
    /\ pc \in {"begin", "request", "await"} => DEFAULT_URLS[urlIdx] # LastAnswered.url
    /\ pc = "returned" => result.endpoint # LastAnswered.url

(***************************************************************************)
(* aggregate                                                               *)
(***************************************************************************)
\* the largest number of rows the three lists hold together
MaxRows == 4

\* the same, where a property adds a further row to the lists by itself
MaxRowsFew == 3

\* strings whose characters matter (addresses) are sequences of characters
a_abc == <<"0", "x", "a", "b", "c">>
a_ABC == <<"0", "x", "A", "B", "C">>
a_AbC == <<"0", "x", "A", "b", "C">>
a_def == <<"0", "x", "d", "e", "f">>
a_DEF == <<"0", "x", "D", "E", "F">>
a_other == <<"0", "x", "0", "0", "e">>

\* String.prototype.toLowerCase, character by character
LowerChar(c) ==
  CASE c = "A" -> "a" [] c = "B" -> "b" [] c = "C" -> "c"
    [] c = "D" -> "d" [] c = "E" -> "e" [] c = "F" -> "f"
    [] OTHER -> c

ToLowerCase(str) == [i \in 1..Len(str) |-> LowerChar(str[i])]

\* mutant of uniqLowerFrom: seen holds the addresses as they are written
RECURSIVE uniqLowerFromAsWritten(_, _, _)
uniqLowerFromAsWritten(arr, seen, acc) ==
  IF arr = <<>> THEN acc
  ELSE IF arr[1] \in seen
       THEN uniqLowerFromAsWritten(Tail(arr), seen, acc)
       ELSE uniqLowerFromAsWritten(Tail(arr), seen \cup {arr[1]},
                                   Append(acc, ToLowerCase(arr[1])))

\* src/node.js:28-36
RECURSIVE uniqLowerFrom(_, _, _)
uniqLowerFrom(arr, seen, acc) ==
  IF arr = <<>> THEN acc
  ELSE LET v == ToLowerCase(arr[1])
       IN  IF v \in seen
           THEN uniqLowerFrom(Tail(arr), seen, acc)
           ELSE uniqLowerFrom(Tail(arr), seen \cup {v}, Append(acc, v))

uniqLower(arr) == uniqLowerFrom(arr, {}, <<>>)

\* the address lists main is run with (command line followed by file)
RawAddressLists == {<<a_abc>>, <<a_ABC, a_def, a_abc>>}

\* the swaps the lists are drawn from. A field a swap lacks is undefined in
\* the row; amountUSD is a whole number of dollars (num) or text that is no
\* number (text)
Swaps == {
  [id |-> "id1", origin |-> a_abc, amountUSD |-> [num |-> 6000],
   pool |-> [token0 |-> [symbol |-> "WBNB"], token1 |-> [symbol |-> "USDT"]]],
  [id |-> "id2", origin |-> a_other, sender |-> a_abc, recipient |-> a_def,
   amountUSD |-> [num |-> 4000],
   pool |-> [token0 |-> [symbol |-> "CAKE"], token1 |-> [symbol |-> "WBNB"]]],
  [id |-> "id3", origin |-> a_abc, sender |-> a_ABC, recipient |-> a_abc,
   amountUSD |-> [num |-> 1],
   pool |-> [token0 |-> [symbol |-> "CAKE"], token1 |-> [symbol |-> "WBNB"]]],
  [id |-> "id4", origin |-> a_DEF, sender |-> a_AbC, recipient |-> a_DEF,
   amountUSD |-> [num |-> -250],
   pool |-> [token0 |-> [symbol |-> "WBNB"], token1 |-> [id |-> "0x55d3"]]],
  [id |-> "id5", recipient |-> a_def, amountUSD |-> [text |-> "n/a"]] }

\* the sequences over a set of at most n elements
RECURSIVE SeqsUpTo(_, _)
SeqsUpTo(S, n) ==
  IF n = 0 THEN {<<>>}
  ELSE LET shorter == SeqsUpTo(S, n - 1)
       IN  shorter \cup {Append(q, x) : q \in shorter, x \in S}

\* (x || '') for a field of a row
OrEmpty(row, f) == IF f \in DOMAIN row THEN row[f] ELSE <<>>

\* Number(s.amountUSD || 0) || 0
Usd(row) ==
  IF "amountUSD" \in DOMAIN row /\ "num" \in DOMAIN row.amountUSD
  THEN row.amountUSD.num
  ELSE 0

\* s.pool?.token0?.symbol || 'T0'
Symbol(row, token, placeholder) ==
  IF /\ "pool" \in DOMAIN row
     /\ token \in DOMAIN row.pool
     /\ "symbol" \in DOMAIN row.pool[token]
     /\ row.pool[token].symbol # ""
  THEN row.pool[token].symbol
  ELSE placeholder

\* `${...}/${...}`
PairKey(row) == Symbol(row, "token0", "T0") \o "/" \o Symbol(row, "token1", "T1")

\* Map.prototype.has, get and set on a map kept as its entries <<key, value>>
\* in insertion order
MapHas(m, key) == \E i \in 1..Len(m) : m[i][1] = key

MapGet(m, key) == m[CHOOSE i \in 1..Len(m) : m[i][1] = key][2]

MapSet(m, key, value) ==
  IF MapHas(m, key)
  THEN [i \in 1..Len(m) |-> IF m[i][1] = key THEN <<key, value>> ELSE m[i]]
  ELSE Append(m, <<key, value>>)

\* mutant of addSet: every row is entered, seen or not
RECURSIVE addSetNoDedup(_, _, _)
addSetNoDedup(idx, rows, tag) ==
  IF rows = <<>> THEN idx
  ELSE addSetNoDedup(
         Append(idx, <<rows[1].id, [row |-> rows[1], _tags |-> {tag}]>>),
         Tail(rows), tag)

\* src/node.js:160-165
RECURSIVE addSet(_, _, _)
addSet(idx, rows, tag) ==
  IF rows = <<>> THEN idx
  ELSE LET row == rows[1]
       IN  addSet(
             IF ~MapHas(idx, row.id)
             THEN MapSet(idx, row.id, [row |-> row, _tags |-> {tag}])
             ELSE MapSet(idx, row.id,
                         [MapGet(idx, row.id) EXCEPT !._tags = @ \cup {tag}]),
             Tail(rows), tag)

\* src/node.js:166-168
MergeLists(so, ss, sr) ==
  addSet(addSet(addSet(<<>>, so, "origin"), ss, "sender"), sr, "recipient")

\* [...idxById.values()]
Values(idx) == [i \in 1..Len(idx) |-> idx[i][2].row]

\* mutant of ZeroMetrics: the loop starts at the second address
ZeroMetricsSkipFirst(addrs) ==
  [a \in {addrs[i] : i \in 2..Len(addrs)} |->
     [address |-> a, swaps_execution |-> 0, volume_execution_usd |-> 0,
      swaps_involved |-> 0, volume_involved_usd |-> 0, top_pairs |-> <<>>]]

\* src/node.js:173-183
ZeroMetrics(addrs) ==
  [a \in {addrs[i] : i \in 1..Len(addrs)} |->
     [address |-> a, swaps_execution |-> 0, volume_execution_usd |-> 0,
      swaps_involved |-> 0, volume_involved_usd |-> 0, top_pairs |-> <<>>]]

\* mutants of OriginKey: the origin is compared as it is written; the
\* execution goes to the sender
OriginKeyAsWritten(row) == OrEmpty(row, "origin")
OriginKeyFromSender(row) == ToLowerCase(OrEmpty(row, "sender"))

\* (s.origin || '').toLowerCase()
OriginKey(row) == ToLowerCase(OrEmpty(row, "origin"))

\* mutant of Involved: only the transfer legs count as involvement
InvolvedNoOrigin(row) ==
  {ToLowerCase(OrEmpty(row, f)) : f \in {"sender", "recipient"}}

\* new Set([s.origin, s.sender, s.recipient].map(x => (x || '').toLowerCase()))
Involved(row) ==
  {ToLowerCase(OrEmpty(row, f)) : f \in {"origin", "sender", "recipient"}}

\* mutant of PassRecord: the roles are walked as a list, not as a set, so an
\* address counts once per role it has
PassRecordPerRole(p, row) ==
  LET usd == Usd(row)
      pair == PairKey(row)
      o == ToLowerCase(OrEmpty(row, "origin"))
      p1 == IF o \in DOMAIN p
            THEN [p EXCEPT ![o] =
                    [@ EXCEPT !.swaps_execution = @ + 1,
                              !.volume_execution_usd = @ + usd,
                              !.top_pairs =
                                MapSet(@, pair,
                                       (IF MapHas(@, pair) THEN MapGet(@, pair) ELSE 0) + usd)]]
            ELSE p
      roles(a) == Cardinality({f \in {"origin", "sender", "recipient"} :
                                 ToLowerCase(OrEmpty(row, f)) = a})
  IN  [a \in DOMAIN p1 |->
         [p1[a] EXCEPT !.swaps_involved = @ + roles(a),
                       !.volume_involved_usd = @ + roles(a) * usd]]

\* src/node.js:186-206, the body of the pass for one swap
PassRecord(p, row) ==
  LET usd == Usd(row)
      pair == PairKey(row)
      o == OriginKey(row)
      p1 == IF o \in DOMAIN p
            THEN [p EXCEPT ![o] =
                    [@ EXCEPT !.swaps_execution = @ + 1,
                              !.volume_execution_usd = @ + usd,
                              !.top_pairs =
                                MapSet(@, pair,
                                       (IF MapHas(@, pair) THEN MapGet(@, pair) ELSE 0) + usd)]]
            ELSE p
  IN  [a \in DOMAIN p1 |->
         IF a \in Involved(row)
         THEN [p1[a] EXCEPT !.swaps_involved = @ + 1,
                            !.volume_involved_usd = @ + usd]
         ELSE p1[a]]

\* a number below 1000 as three digits
Pad3(n) ==
  IF n < 10 THEN "00" \o ToString(n)
  ELSE IF n < 100 THEN "0" \o ToString(n)
  ELSE ToString(n)

\* a natural number with the en-US grouping
RECURSIVE Grouped(_)
Grouped(n) ==
  IF n < 1000 THEN ToString(n)
  ELSE Grouped(n \div 1000) \o "," \o Pad3(n % 1000)

\* src/node.js:45-47, on whole dollars
humanUSD(x) ==
  IF x < 0 THEN "-$" \o Grouped(-x) \o ".00" ELSE "$" \o Grouped(x) \o ".00"

\* mutant of SortDesc: the comparator is x[1] - y[1], ascending by value
RECURSIVE SortAsc(_)
SortAsc(entries) ==
  IF entries = <<>> THEN <<>>
  ELSE LET n == Len(entries)
           init == SortAsc(SubSeq(entries, 1, n - 1))
           e == entries[n]
           k == Cardinality({i \in 1..Len(init) : init[i][2] <= e[2]})
       IN  SubSeq(init, 1, k) \o <<e>> \o SubSeq(init, k + 1, Len(init))

\* Array.prototype.sort((x, y) => y[1] - x[1]): stable, descending by value
RECURSIVE SortDesc(_)
SortDesc(entries) ==
  IF entries = <<>> THEN <<>>
  ELSE LET n == Len(entries)
           init == SortDesc(SubSeq(entries, 1, n - 1))
           e == entries[n]
           k == Cardinality({i \in 1..Len(init) : init[i][2] >= e[2]})
       IN  SubSeq(init, 1, k) \o <<e>> \o SubSeq(init, k + 1, Len(init))

\* .slice(0, 5)
TopCount == 5

\* src/node.js:211-214
FinalPairs(entries) ==
  LET sorted == SortDesc(entries)
      top == SubSeq(sorted, 1, IF Len(sorted) < TopCount THEN Len(sorted) ELSE TopCount)
  IN  [i \in 1..Len(top) |-> top[i][1] \o " (" \o humanUSD(top[i][2]) \o ")"]

\* src/node.js:210-215
FinalizeAll(p) == [a \in DOMAIN p |-> [p[a] EXCEPT !.top_pairs = FinalPairs(@)]]

\* the pass over all from position k on
RECURSIVE PassFrom(_, _, _)
PassFrom(p, rows, k) ==
  IF k > Len(rows) THEN p ELSE PassFrom(PassRecord(p, rows[k]), rows, k + 1)

\* src/node.js:158-218 as a function of its arguments
Aggregate(addrs, so, ss, sr) ==
  LET rows == Values(MergeLists(so, ss, sr))
  IN  [per |-> FinalizeAll(PassFrom(ZeroMetrics(addrs), rows, 1)),
       allCount |-> Len(rows)]

\* main has its addresses and the three lists of an endpoint, of at most n
\* rows together, and calls aggregate
AggCallFrom(S, n) ==
  /\ SUBGRAPH_URL = Undefined
  /\ pc = "returned"
  /\ urlIdx = 1
  /\ lastErr = NoObject
  /\ qIdx = 3
  /\ skip = 0
  /\ out = <<>>
  /\ result = NoObject
  /\ thrown = NoObject
  /\ inflight = {}
  /\ avail = 0
  /\ requests = <<>>
  /\ errors = <<>>
  /\ lastAnswer = "none"
  /\ \E raw \in RawAddressLists : addresses = uniqLower(raw)
  /\ \E rows \in SeqsUpTo(S, n) :
       \E i \in 0..Len(rows) :
         \E j \in i..Len(rows) :
           /\ swapsOrigin = SubSeq(rows, 1, i)
           /\ swapsSender = SubSeq(rows, i + 1, j)
           /\ swapsRecipient = SubSeq(rows, j + 1, Len(rows))
  /\ apc = "call"
  /\ idxById = <<>>
  /\ all = <<>>
  /\ per = <<>>
  /\ cursor = 0
  /\ ret = NoObject
  /\ MainIdle

\* a call of aggregate with up to n rows of Swaps
AggCall(n) == AggCallFrom(Swaps, n)

\* src/node.js:159-183: the three addSet calls, all, and the zeroed per
Merge ==
  /\ apc = "call"
  /\ idxById' = MergeLists(swapsOrigin, swapsSender, swapsRecipient)
  /\ all' = Values(idxById')
  /\ per' = ZeroMetrics(addresses)
  /\ cursor' = 1
  /\ apc' = "pass"
  /\ UNCHANGED <<fetchVars, mainVars, addresses, ret>>

\* src/node.js:185-207: one iteration of for (const s of all)
PassStep ==
  /\ apc = "pass"
  /\ cursor <= Len(all)
  /\ per' = PassRecord(per, all[cursor])
  /\ cursor' = cursor + 1
  /\ UNCHANGED <<fetchVars, mainVars, addresses, apc, idxById, all, ret>>

\* src/node.js:209-217: the top pairs, and the return
Finalize ==
  /\ apc = "pass"
  /\ cursor > Len(all)
  /\ per' = FinalizeAll(per)
  /\ ret' = [per |-> per', allCount |-> Len(all)]
  /\ apc' = "done"
  /\ UNCHANGED <<fetchVars, mainVars, addresses, idxById, all, cursor>>

AggNext ==
  \/ Merge
  \/ PassStep
  \/ Finalize

AggInit == AggCall(MaxRows)

SpecAgg == AggInit /\ [][AggNext]_vars

AggInitFew == AggCall(MaxRowsFew)

SpecAggFew == AggInitFew /\ [][AggNext]_vars

\* swaps of which two, executed by 0xabc in different pools, carry the same
\* amount
SwapsTied == {
  [id |-> "id1", origin |-> a_abc, amountUSD |-> [num |-> 6000],
   pool |-> [token0 |-> [symbol |-> "WBNB"], token1 |-> [symbol |-> "USDT"]]],
  [id |-> "id2", origin |-> a_other, sender |-> a_abc, recipient |-> a_def,
   amountUSD |-> [num |-> 4000],
   pool |-> [token0 |-> [symbol |-> "CAKE"], token1 |-> [symbol |-> "WBNB"]]],
  [id |-> "id6", origin |-> a_abc, sender |-> a_abc, recipient |-> a_def,
   amountUSD |-> [num |-> 6000],
   pool |-> [token0 |-> [symbol |-> "BUSD"], token1 |-> [symbol |-> "USDT"]]] }

AggInitTied == AggCallFrom(SwapsTied, MaxRowsFew)

SpecAggTied == AggInitTied /\ [][AggNext]_vars

(***************************************************************************)
(* Definitions the properties of aggregate use.                            *)
(***************************************************************************)
\* the swap of the model with an identifier
SwapById(id) == CHOOSE r \in Swaps : r.id = id

\* the elements of a sequence
Range(q) == {q[i] : i \in 1..Len(q)}

\* a sequence with x inserted after its first k elements
InsertAt(q, k, x) == SubSeq(q, 1, k) \o <<x>> \o SubSeq(q, k + 1, Len(q))

\* the rows aggregate was called with
InputRows == Range(swapsOrigin) \cup Range(swapsSender) \cup Range(swapsRecipient)

\* the counts and volumes of a result, without the top pairs
Metrics(r) ==
  [per |-> [a \in DOMAIN r.per |->
              <<r.per[a].swaps_execution, r.per[a].volume_execution_usd,
                r.per[a].swaps_involved, r.per[a].volume_involved_usd>>],
   allCount |-> r.allCount]

\* the sum of the amounts of a set of rows with distinct identifiers
RECURSIVE SumUsd(_)
SumUsd(S) ==
  IF S = {} THEN 0
  ELSE LET r == CHOOSE x \in S : TRUE IN Usd(r) + SumUsd(S \ {r})

\* the number of times an identifier occurs in a list
Occurrences(q, id) == Cardinality({i \in 1..Len(q) : q[i].id = id})

(***************************************************************************)
(* C9. A swap is counted at most once per metrics field per address        *)
(* however often its identifier occurs in the inputs: a further copy of a  *)
(* row already present, put anywhere into any of the three lists, leaves   *)
(* every address's swaps_execution, volume_execution_usd, swaps_involved   *)
(* and volume_involved_usd, and allCount, as they are.                     *)
(***************************************************************************)
C9_CopiesCountOnce ==
  apc = "done" =>
    \A r \in InputRows :
      /\ \A k \in 0..Len(swapsOrigin) :
           Metrics(Aggregate(addresses, InsertAt(swapsOrigin, k, r),
                             swapsSender, swapsRecipient)) = Metrics(ret)
      /\ \A k \in 0..Len(swapsSender) :
           Metrics(Aggregate(addresses, swapsOrigin,
                             InsertAt(swapsSender, k, r), swapsRecipient)) = Metrics(ret)
      /\ \A k \in 0..Len(swapsRecipient) :
           Metrics(Aggregate(addresses, swapsOrigin, swapsSender,
                             InsertAt(swapsRecipient, k, r))) = Metrics(ret)

\* a swap of a requested address came twice in one list and again in
\* another, and counts once
C9_Witness ==
  /\ apc = "done"
  /\ Occurrences(swapsOrigin, "id3") = 2
  /\ Occurrences(swapsSender, "id3") = 1
  /\ ret.allCount = 1
  /\ ret.per[a_abc].swaps_execution = 1
  /\ ret.per[a_abc].volume_execution_usd = 1
  /\ ret.per[a_abc].swaps_involved = 1
  /\ ret.per[a_abc].volume_involved_usd = 1

(***************************************************************************)
(* C10. For every requested address a, aggregate yields swaps_execution =  *)
(* the number of distinct identifiers whose lowercased origin is a,        *)
(* volume_execution_usd = the sum of their amounts, swaps_involved = the   *)
(* number of distinct identifiers with a as lowercased origin, sender or   *)
(* recipient, and volume_involved_usd = the sum of those swaps' amounts.   *)
(***************************************************************************)
C10_MetricsByRole ==
  apc = "done" =>
    \A i \in 1..Len(addresses) :
      LET a == addresses[i]
          exec == {r \in InputRows : ToLowerCase(OrEmpty(r, "origin")) = a}
          inv == {r \in InputRows :
                    \E f \in {"origin", "sender", "recipient"} :
                      ToLowerCase(OrEmpty(r, f)) = a}
      IN  /\ ret.per[a].swaps_execution = Cardinality({r.id : r \in exec})
          /\ ret.per[a].volume_execution_usd = SumUsd(exec)
          /\ ret.per[a].swaps_involved = Cardinality({r.id : r \in inv})
          /\ ret.per[a].volume_involved_usd = SumUsd(inv)

\* the scenario of the specification: id1 and id3 executed by 0xabc, id2
\* sent by it, id3 in the by-origin and the by-sender list
C10_Witness ==
  /\ apc = "done"
  /\ addresses = <<a_abc>>
  /\ swapsOrigin = <<SwapById("id1"), SwapById("id3")>>
  /\ swapsSender = <<SwapById("id2"), SwapById("id3")>>
  /\ swapsRecipient = <<>>
  /\ ret.per[a_abc].swaps_execution = 2
  /\ ret.per[a_abc].volume_execution_usd = 6001
  /\ ret.per[a_abc].swaps_involved = 3
  /\ ret.per[a_abc].volume_involved_usd = 10001

\* the pass is about to handle a swap
PassRunning == apc = "pass" /\ cursor <= Len(all)

\* the lowercased addresses in the roles of a row
RolesOf(row) == {ToLowerCase(OrEmpty(row, f)) : f \in {"origin", "sender", "recipient"}}

\* the requested addresses
Requested == Range(addresses)

(***************************************************************************)
(* C11. Execution exclusivity: the step of the pass over a swap whose      *)
(* lowercased origin is not a requested address leaves every address's     *)
(* swaps_execution, volume_execution_usd and pair volumes as they are,     *)
(* also when a requested address is that swap's sender or recipient.       *)
(***************************************************************************)
C11_ExecutionExclusive ==
  [][(PassRunning /\ ToLowerCase(OrEmpty(all[cursor], "origin")) \notin Requested) =>
       \A a \in Requested :
         /\ per'[a].swaps_execution = per[a].swaps_execution
         /\ per'[a].volume_execution_usd = per[a].volume_execution_usd
         /\ per'[a].top_pairs = per[a].top_pairs]_vars

\* the pass has handled a swap that 0xabc sent and another address executed
C11_Witness ==
  /\ apc = "pass"
  /\ cursor = 2
  /\ all[1].id = "id2"
  /\ a_abc \in Requested
  /\ per[a_abc].swaps_involved = 1
  /\ per[a_abc].swaps_execution = 0
  /\ per[a_abc].top_pairs = <<>>

(***************************************************************************)
(* C12. Involvement non-duplication: the step of the pass over a swap      *)
(* raises swaps_involved of a requested address by exactly 1 and adds the  *)
(* amount to volume_involved_usd exactly once when the address has one,    *)
(* two or all three of the roles origin, sender, recipient (the roles      *)
(* compared in lower case), and leaves both as they are otherwise.         *)
(***************************************************************************)
C12_InvolvedOnce ==
  [][PassRunning =>
       \A a \in Requested :
         IF a \in RolesOf(all[cursor])
         THEN /\ per'[a].swaps_involved = per[a].swaps_involved + 1
              /\ per'[a].volume_involved_usd = per[a].volume_involved_usd + Usd(all[cursor])
         ELSE /\ per'[a].swaps_involved = per[a].swaps_involved
              /\ per'[a].volume_involved_usd = per[a].volume_involved_usd]_vars

\* the pass has handled the swap in which 0xabc is origin, sender (written
\* 0xABC) and recipient
C12_Witness ==
  /\ apc = "pass"
  /\ cursor = 2
  /\ all[1].id = "id3"
  /\ Cardinality({f \in {"origin", "sender", "recipient"} :
                    ToLowerCase(OrEmpty(all[1], f)) = a_abc}) = 3
  /\ per[a_abc].swaps_involved = 1
  /\ per[a_abc].volume_involved_usd = 1

(***************************************************************************)
(* C13. For every requested address, after every step of the pass and in   *)
(* the result, swaps_involved >= swaps_execution >= 0.                     *)
(***************************************************************************)
C13_InvolvedAtLeastExecution ==
  /\ \A a \in DOMAIN per :
       /\ per[a].swaps_execution >= 0
       /\ per[a].swaps_involved >= per[a].swaps_execution
  /\ apc = "done" =>
       \A a \in DOMAIN ret.per :
         /\ ret.per[a].swaps_execution >= 0
         /\ ret.per[a].swaps_involved >= ret.per[a].swaps_execution

\* in the middle of the pass 0xabc has executed a swap and is involved in
\* more than it executed
C13_Witness ==
  /\ apc = "pass"
  /\ cursor = 3
  /\ Len(all) >= 3
  /\ per[a_abc].swaps_execution = 1
  /\ per[a_abc].swaps_involved = 2

(***************************************************************************)
(* C14. For every requested address and any input lists, whatever numeric  *)
(* amounts the rows carry, the result has                                  *)
(* volume_execution_usd >= 0 and volume_involved_usd >=                    *)
(* volume_execution_usd.                                                   *)
(***************************************************************************)
C14_VolumesOrderedAnyAmount ==
  apc = "done" =>
    \A a \in DOMAIN ret.per :
      /\ ret.per[a].volume_execution_usd >= 0
      /\ ret.per[a].volume_involved_usd >= ret.per[a].volume_execution_usd

(***************************************************************************)
(* C17. The mapping has exactly one entry per requested address and none   *)
(* for any other address, from the initialisation to the result; an        *)
(* address in no role of any swap keeps its four metrics at 0 and an empty *)
(* top_pairs list, so swaps of other addresses only create no entry.       *)
(***************************************************************************)
C17_OneEntryPerAddress ==
  /\ apc \in {"pass", "done"} =>
       /\ DOMAIN per = Requested
       /\ \A a \in Requested : per[a].address = a
  /\ apc = "done" =>
       /\ DOMAIN ret.per = Requested
       /\ \A a \in Requested :
            /\ ret.per[a].address = a
            /\ (\A r \in InputRows : a \notin RolesOf(r)) =>
                 /\ ret.per[a].swaps_execution = 0
                 /\ ret.per[a].volume_execution_usd = 0
                 /\ ret.per[a].swaps_involved = 0
                 /\ ret.per[a].volume_involved_usd = 0
                 /\ ret.per[a].top_pairs = <<>>

\* only 0xabc is requested and the one swap fetched has 0xdef as its
\* recipient and nobody else in it
C17_Witness ==
  /\ apc = "done"
  /\ addresses = <<a_abc>>
  /\ ret.allCount = 1
  /\ \E r \in InputRows : r.id = "id5" /\ RolesOf(r) = {a_def, <<>>}
  /\ DOMAIN ret.per = {a_abc}
  /\ ret.per[a_abc].swaps_involved = 0

\* the orders in which three lists can be handed over
Orders == {<<1, 2, 3>>, <<1, 3, 2>>, <<2, 1, 3>>, <<2, 3, 1>>, <<3, 1, 2>>, <<3, 2, 1>>}

\* aggregate on the three input lists handed over in the order o
AggregateInOrder(o) ==
  LET lists == <<swapsOrigin, swapsSender, swapsRecipient>>
  IN  Aggregate(addresses, lists[o[1]], lists[o[2]], lists[o[3]])

(***************************************************************************)
(* C15. The result of aggregate does not depend on the order of the three  *)
(* input lists: handing them over in any other order gives every address   *)
(* the same counts, volumes and top_pairs list (same pairs in the same     *)
(* order) and the same allCount.                                           *)
(***************************************************************************)
C15_ListOrderIrrelevant ==
  apc = "done" => \A o \in Orders : AggregateInOrder(o) = ret

(***************************************************************************)
(* aggregate on swaps one address executed in many pools.                  *)
(***************************************************************************)
\* the number of pools
MaxPairs == 6

PairSymbols == <<"A", "B", "C", "D", "E", "F", "G", "H">>

PairIds == <<"p1", "p2", "p3", "p4", "p5", "p6", "p7", "p8">>

\* the volumes 500, 300, 200, 100, 50, 10 of six pools; a further pool ties
\* with the fifth
PairVolume(i) == IF i <= 6 THEN <<500, 300, 200, 100, 50, 10>>[i] ELSE 50

\* one swap per pool, executed by 0xabc
PairSwaps ==
  {[id |-> PairIds[i], origin |-> a_abc, amountUSD |-> [num |-> PairVolume(i)],
    pool |-> [token0 |-> [symbol |-> PairSymbols[i]], token1 |-> [symbol |-> "USDT"]]]
     : i \in 1..MaxPairs}

\* a second swap in the pool F, with the origin written 0xABC
SwapAgain ==
  [id |-> "again", origin |-> a_ABC, amountUSD |-> [num |-> 45],
   pool |-> [token0 |-> [symbol |-> "F"], token1 |-> [symbol |-> "USDT"]]]

\* the sequences over S without repetition
RECURSIVE SeqsNoRepeat(_, _)
SeqsNoRepeat(S, n) ==
  IF n = 0 THEN {<<>>}
  ELSE LET shorter == SeqsNoRepeat(S, n - 1)
       IN  shorter \cup UNION {{Append(q, x) : x \in S \ Range(q)} : q \in shorter}

\* a call of aggregate for 0xabc and 0xdef with swaps of PairSwaps in any
\* order, with or without SwapAgain after them, all of them answers of the
\* by-origin query
AggInitPairs ==
  /\ SUBGRAPH_URL = Undefined
  /\ pc = "returned"
  /\ urlIdx = 1
  /\ lastErr = NoObject
  /\ qIdx = 3
  /\ skip = 0
  /\ out = <<>>
  /\ result = NoObject
  /\ thrown = NoObject
  /\ inflight = {}
  /\ avail = 0
  /\ requests = <<>>
  /\ errors = <<>>
  /\ lastAnswer = "none"
  /\ addresses = <<a_abc, a_def>>
  /\ \E q \in SeqsNoRepeat(PairSwaps, MaxPairs) :
       swapsOrigin \in {q, Append(q, SwapAgain)}
  /\ swapsSender = <<>>
  /\ swapsRecipient = <<>>
  /\ apc = "call"
  /\ idxById = <<>>
  /\ all = <<>>
  /\ per = <<>>
  /\ cursor = 0
  /\ ret = NoObject
  /\ MainIdle

SpecAggPairs == AggInitPairs /\ [][AggNext]_vars

\* the pair keys of the swaps an address executed
PairsOf(a) ==
  {PairKey(r) : r \in {x \in InputRows : ToLowerCase(OrEmpty(x, "origin")) = a}}

\* the volume an address executed in a pair
PairVolumeOf(a, k) ==
  SumUsd({r \in InputRows : ToLowerCase(OrEmpty(r, "origin")) = a /\ PairKey(r) = k})

\* the text of a pair in a top_pairs list
PairText(a, k) == k \o " (" \o humanUSD(PairVolumeOf(a, k)) \o ")"

(***************************************************************************)
(* C16. For every address the final top_pairs list has min(5, number of    *)
(* distinct pairs of the address) entries, each the text of a pair of the  *)
(* address with its accumulated volume, no pair twice, in order of         *)
(* non-increasing accumulated volume, and every pair left out has a volume *)
(* less than or equal to that of every pair listed.                        *)
(***************************************************************************)
C16_TopFivePairs ==
  apc = "done" =>
    \A a \in Requested :
      LET top == ret.per[a].top_pairs
          \* pair, accumulated volume, text
          entries == {<<k, PairVolumeOf(a, k), PairText(a, k)>> : k \in PairsOf(a)}
          n == Cardinality(entries)
          listed == {e \in entries : e[3] \in Range(top)}
      IN  /\ Len(top) = IF n < 5 THEN n ELSE 5
          /\ \A i \in 1..Len(top) : \E e \in entries : e[3] = top[i]
          /\ \A i, j \in 1..Len(top) :
               i < j => \E e, f \in entries : /\ e[3] = top[i]
                                              /\ f[3] = top[j]
                                              /\ e[1] # f[1]
                                              /\ e[2] >= f[2]
          /\ \A e \in entries \ listed : \A f \in listed : e[2] <= f[2]

\* the six pools with 500, 300, 200, 100, 50 and 10, fetched in another
\* order: the first five are listed and F is left out
C16_Witness ==
  /\ apc = "done"
  /\ ret.allCount = 6
  /\ swapsOrigin[1].id = "p6"
  /\ swapsOrigin[2].id = "p3"
  /\ PairsOf(a_abc) = {"A/USDT", "B/USDT", "C/USDT", "D/USDT", "E/USDT", "F/USDT"}
  /\ PairVolumeOf(a_abc, "F/USDT") = 10
  /\ ret.per[a_abc].top_pairs =
       <<"A/USDT ($500.00)", "B/USDT ($300.00)", "C/USDT ($200.00)",
         "D/USDT ($100.00)", "E/USDT ($50.00)">>

\* the position of a query in the order fetchWithFallbacks runs them
QueryIndex(q) == CHOOSE i \in 1..Len(Queries) : Queries[i] = q

\* an error names the request r
Failed(r) ==
  \E k \in 1..Len(errors) :
    /\ ErrUrl(errors[k]) = r.url
    /\ ErrQuery(errors[k]) = r.query
    /\ ErrSkip(errors[k]) = r.skip

(***************************************************************************)
(* C18. fetchWithFallbacks is one thread of control.  At most one page     *)
(* request is in flight, it is the latest one issued, and the function is  *)
(* suspended on it.  On an endpoint a request follows an answered request  *)
(* that did not fail, with the same or the next query: by-origin is over   *)
(* before the first by-sender request, by-sender before the first          *)
(* by-recipient request.  A request to another endpoint follows a failed   *)
(* request, goes to the next endpoint and starts with by-origin, and every *)
(* endpoint before the one a request names has failed.                     *)
(***************************************************************************)
C18_SingleThread ==
  /\ Cardinality(inflight) <= 1
  /\ inflight # {} <=> pc = "await"
  /\ inflight # {} => inflight = {requests[Len(requests)]}
  /\ \A i \in 1..(Len(requests) - 1) :
       LET r == requests[i]
           r2 == requests[i + 1]
       IN  /\ r \notin inflight
           /\ r2.url = r.url =>
                /\ ~Failed(r)
                /\ \/ QueryIndex(r2.query) = QueryIndex(r.query)
                   \/ QueryIndex(r2.query) = QueryIndex(r.query) + 1 /\ r2.skip = 0
           /\ r2.url # r.url =>
                /\ Failed(r)
                /\ UrlIndex(r2.url) = UrlIndex(r.url) + 1
                /\ QueryIndex(r2.query) = 1
                /\ r2.skip = 0
  /\ \A i \in 1..Len(requests) :
       \A k \in 1..(UrlIndex(requests[i].url) - 1) :
         \E j \in 1..Len(errors) : ErrUrl(errors[j]) = DEFAULT_URLS[k]

\* the second endpoint is asked its first by-recipient page after the first
\* endpoint failed and the other two queries returned
C18_Witness ==
  /\ pc = "await"
  /\ urlIdx = 2
  /\ qIdx = 3
  /\ Len(errors) = 1
  /\ Cardinality(inflight) = 1
  /\ \E i \in 1..Len(requests) : requests[i].url = DEFAULT_URLS[2] /\ requests[i].query = Queries[2]

\* fetchWithFallbacks is over
Terminated == pc \in {"returned", "thrown"}

\* a call of fetchAll runs on a source that has a full page for every
\* request the model follows
FullPagesOnly == avail = Plenty /\ pc \in {"request", "await"}

(***************************************************************************)
(* C19. With every request answered, fetchWithFallbacks returns or throws  *)
(* unless a call of fetchAll stays for ever on a source that only returns  *)
(* full pages (no request of it fails and no page is short); and a full    *)
(* page is always followed by the request for the next page, whatever the  *)
(* number of pages so far: pagination has no page limit.                   *)
(***************************************************************************)
C19_TerminatesUnlessFullPagesOnly ==
  /\ (<>[]FullPagesOnly) \/ <>Terminated
  /\ [][(pc = "await" /\ Len(out') = Len(out) + first) =>
          pc' = "request" /\ skip' = skip + first /\ qIdx' = qIdx /\ urlIdx' = urlIdx]_vars

\* a call has asked for every page the model follows, more than a source of
\* MaxRecords records has, got full pages only, and is about to ask again
C19_Witness ==
  /\ FullPagesOnly
  /\ pc = "request"
  /\ skip = MaxPages * first
  /\ Len(out) = MaxPages * first
  /\ Len(CallRequests(DEFAULT_URLS[urlIdx], Queries[qIdx])) = MaxPages
  /\ MaxPages > CeilDiv(MaxRecords, first)

(***************************************************************************)
(* main up to its calls of fetchWithFallbacks and aggregate.               *)
(***************************************************************************)
\* the length of the address lists main is given
MaxGiven == 2

\* an address written with blanks around it
a_DEF_padded == <<" ", "0", "x", "D", "E", "F", " ">>

\* the texts between the commas of --addresses= and on the lines of the file
GivenTexts == {a_abc, a_ABC, a_def, a_DEF_padded, <<>>}

\* String.prototype.trim, for blanks
RECURSIVE TrimText(_)
TrimText(t) ==
  IF t = <<>> THEN t
  ELSE IF Head(t) = " " THEN TrimText(Tail(t))
  ELSE IF t[Len(t)] = " " THEN TrimText(SubSeq(t, 1, Len(t) - 1))
  ELSE t

\* .map(s => s.trim()).filter(Boolean)
TrimmedNonEmpty(texts) ==
  SelectSeq([i \in 1..Len(texts) |-> TrimText(texts[i])], LAMBDA t : t # <<>>)

\* src/node.js:20-25, on the parts of the argument
parseAddressList(parts) == TrimmedNonEmpty(parts)

\* src/node.js:50-59
loadWalletsFromFile(file) ==
  IF file.readable THEN uniqLower(TrimmedNonEmpty(file.lines)) ELSE <<>>

\* [...cliAddresses, ...fileAddresses]
GivenAddresses == parseAddressList(argAddresses) \o loadWalletsFromFile(walletFile)

\* main starts; fetchWithFallbacks and aggregate have not been called
MainInit ==
  /\ SUBGRAPH_URL = Undefined
  /\ pc = "loop"
  /\ urlIdx = 1
  /\ lastErr = NoObject
  /\ qIdx = 0
  /\ skip = 0
  /\ out = <<>>
  /\ swapsOrigin = <<>>
  /\ swapsSender = <<>>
  /\ swapsRecipient = <<>>
  /\ result = NoObject
  /\ thrown = NoObject
  /\ inflight = {}
  /\ avail = 0
  /\ requests = <<>>
  /\ errors = <<>>
  /\ lastAnswer = "none"
  /\ AggIdle
  /\ argAddresses \in SeqsUpTo(GivenTexts, MaxGiven)
  /\ walletFile \in [readable : BOOLEAN, lines : SeqsUpTo(GivenTexts, MaxGiven)]
  /\ mpc = "start"

\* src/node.js:237-244
LoadAddresses ==
  /\ mpc = "start"
  /\ addresses' = uniqLower(GivenAddresses)
  /\ mpc' = IF Len(addresses') = 0 THEN "exit" ELSE "loaded"
  /\ UNCHANGED <<fetchVars, apc, idxById, all, per, cursor, ret, argAddresses, walletFile>>

\* src/node.js:253: fetchWithFallbacks(addresses, start, end)
CallFetch ==
  /\ mpc = "loaded"
  /\ mpc' = "fetch"
  /\ UNCHANGED <<fetchVars, aggVars, argAddresses, walletFile>>

\* src/node.js:256: aggregate(addresses, swapsOrigin, swapsSender, swapsRecipient)
CallAggregate ==
  /\ mpc = "fetch"
  /\ mpc' = "aggregate"
  /\ UNCHANGED <<fetchVars, aggVars, argAddresses, walletFile>>

MainNext ==
  \/ LoadAddresses
  \/ CallFetch
  \/ CallAggregate

SpecMain == MainInit /\ [][MainNext]_vars

\* no capital letter of a hexadecimal number
IsLower(t) == \A i \in 1..Len(t) : t[i] \notin {"A", "B", "C", "D", "E", "F"}

\* the position at which an address first occurs, in any case, in a list
FirstAt(xs, a) == CHOOSE i \in 1..Len(xs) :
                    /\ ToLowerCase(xs[i]) = a
                    /\ \A j \in 1..(i - 1) : ToLowerCase(xs[j]) # a

(***************************************************************************)
(* C20. uniqLower of the addresses main is given is the list of those      *)
(* addresses in lower case, each once, in the order in which they first    *)
(* occur (addresses that differ in the case of letters only are one), and  *)
(* uniqLower of that list is the list itself; what main hands to           *)
(* fetchWithFallbacks and to aggregate is this list.                       *)
(***************************************************************************)
C20_UniqLower ==
  LET xs == GivenAddresses
      ys == uniqLower(xs)
  IN  /\ \A i \in 1..Len(ys) : IsLower(ys[i])
      /\ \A i, j \in 1..Len(ys) : i # j => ys[i] # ys[j]
      /\ Range(ys) = {ToLowerCase(xs[i]) : i \in 1..Len(xs)}
      /\ \A i, j \in 1..Len(ys) : i < j => FirstAt(xs, ys[i]) < FirstAt(xs, ys[j])
      /\ uniqLower(ys) = ys
      /\ mpc \in {"loaded", "fetch", "aggregate"} => addresses = ys /\ addresses # <<>>

\* 0xABC and 0xdef on the command line, 0xabc and a padded 0xDEF in the
\* file: aggregate is called with 0xabc and 0xdef
C20_Witness ==
  /\ mpc = "aggregate"
  /\ argAddresses = <<a_ABC, a_def>>
  /\ walletFile = [readable |-> TRUE, lines |-> <<a_abc, a_DEF_padded>>]
  /\ Len(GivenAddresses) = 4
  /\ addresses = <<a_abc, a_def>>

====
